---- MODULE Spec2Model ----
(***************************************************************************)
(* GreetingServer (src/server/GreetingServer.cc): the session registry,    *)
(* the two completion-queue dispatch loops, the greeting broadcaster and   *)
(* the stop() shutdown sequence, modelled as one state machine with one    *)
(* action per atomic step of each thread.                                  *)
(*                                                                         *)
(* A lock_guard whose critical section contains no further blocking call   *)
(* (removeSession, getSession, the insertion of addSession) is one action  *)
(* guarded by the mutex being free; a thread standing at such an action    *)
(* while the mutex is held is blocked on that mutex.  Critical sections    *)
(* that nest a second lock (the two sweeps, process) are split into an     *)
(* acquire step, the body and a release.                                   *)
(*                                                                         *)
(* GreetingSession (process, reply, init) and type.h are not part of the   *)
(* sources at hand; they are modelled from sections 3, 4.2 and 6 of the    *)
(* specification and marked as such in the model map.                      *)
(*                                                                         *)
(* Spec is the server with one thread calling stop(), FairSpec adds weak   *)
(* fairness of every thread, StopRaceSpec has two threads calling stop(),  *)
(* and CodecSpec runs the identifier counter and the tag encoding through  *)
(* the whole identifier range of a tag of TagBits bits.                    *)
(***************************************************************************)
EXTENDS Integers, FiniteSets, Sequences, TLC

\* Number of session identifiers the model lets addSession hand out.
MaxSessions == 2

\* Width of a completion tag in bits.  The code's tag is a uint64_t (a void*
\* of the transport); the model keeps the arithmetic modulo 2^TagBits and
\* scales the width down so that the identifier range can be enumerated.
TagBits == 4

\* Cap of the history counters (they only need to tell 0, 1 and "more").
MaxCount == 2

\* GrpcEvent values, in the order of the switch in src/common/type.cc.
GRPC_EVENT_CONNECTED == 0

GRPC_EVENT_READ_DONE == 1

GRPC_EVENT_WRITE_DONE == 2

GRPC_EVENT_FINISHED == 3

\* Low bits of a tag reserved for the event kind.
GRPC_EVENT_BIT_LENGTH == 2

GRPC_EVENT_MASK == 3

IDs == 0 .. (MaxSessions - 1)

Loops == {"call", "notif"}

\* The threads that may call stop(): "stop" is the one caller of Spec,
\* "stop2" a second caller that only StopRaceSpec lets run.
Stoppers == {"stop", "stop2"}

Sweepers == {"pub"} \cup Stoppers

Threads == Loops \cup Sweepers \cup {"main"}

NoId == -1

NoEvent == [id |-> NoId, event |-> NoId, ok |-> FALSE]

\* The four event kinds.
Events == {GRPC_EVENT_CONNECTED, GRPC_EVENT_READ_DONE, GRPC_EVENT_WRITE_DONE,
           GRPC_EVENT_FINISHED}

\* (session_id << GRPC_EVENT_BIT_LENGTH) | event, in a tag of TagBits bits:
\* the shift drops the bits that leave the tag.
Encode(id, event) == (id * (2 ^ GRPC_EVENT_BIT_LENGTH) + event) % (2 ^ TagBits)

\* Largest identifier whose shifted value still fits the tag.
MaxTagId == 2 ^ (TagBits - GRPC_EVENT_BIT_LENGTH) - 1

\* tag & GRPC_EVENT_MASK  (the mask is 2^k - 1, so the and is a remainder)
DecodeEvent(tag) == tag % (GRPC_EVENT_MASK + 1)

\* A variant that shifts by one bit less than the kind occupies.
DecodeIdShortShift(tag) == tag \div (2 ^ (GRPC_EVENT_BIT_LENGTH - 1))

\* tag >> GRPC_EVENT_BIT_LENGTH
DecodeId(tag) == tag \div (2 ^ GRPC_EVENT_BIT_LENGTH)

Min(S) == CHOOSE x \in S : \A y \in S : x <= y

Bump(n) == IF n < MaxCount THEN n + 1 ELSE n

VARIABLES
    running,               \* running_
    session_id_allocator,  \* session_id_allocator_
    sessions,              \* keys of sessions_ (a session object is named by its id)
    status,                \* GreetingSession::status_ of each session object
    writeInFlight,         \* a session's outstanding write
    mutex_sessions,        \* holder of mutex_sessions_, or "free"
    mutex,                 \* holder of each session's mutex_, or "free"
    pc,                    \* position of every thread
    ev,                    \* the (session_id, event, ok) a dispatch loop is handling
    cur,                   \* loops: new_session_id in addSession; sweeps: it.first
    todo,                  \* entries a sweep has still to visit
    pending,               \* tags armed on the transport and not yet delivered
    serverShutdown,        \* server_->Shutdown() was called
    cqShutdown,            \* Shutdown() was called on a loop's completion queue
    removedHandled,        \* history: ids whose FINISHED / not-ok event was handled
    cancelLog,             \* history: TryCancel calls, with the status they saw
    stopLog,               \* history: the steps of stop(), in the order they happened
    sweepsAfterClear,      \* history: broadcaster sweeps begun after running_ = false
    replyAfterClear,       \* history: a reply() call began after running_ = false
    replyCount,            \* history: reply() calls per session in the current sweep
    sweepSnapshot,         \* history: registry keys when the current sweep began
    codecIn                \* history: the (identifier, kind) last encoded by CodecArm

vars == <<running, session_id_allocator, sessions, status, writeInFlight,
          mutex_sessions, mutex, pc, ev, cur, todo, pending, serverShutdown,
          cqShutdown, removedHandled, cancelLog, stopLog, sweepsAfterClear,
          replyAfterClear, replyCount, sweepSnapshot, codecIn>>

registryVars == <<sessions, mutex_sessions>>

sessionVars == <<status, writeInFlight>>

transportVars == <<pending, serverShutdown, cqShutdown>>

stopHist == <<cancelLog, stopLog>>

pubHist == <<sweepsAfterClear, replyAfterClear, replyCount, sweepSnapshot>>

FlagCleared == stopLog # <<>>

\* The state after GreetingServer::init(): nothing runs, the registry is empty.
Init ==
    /\ running = FALSE
    /\ session_id_allocator = 0
    /\ sessions = {}
    /\ status = [s \in IDs |-> "NONE"]
    /\ writeInFlight = [s \in IDs |-> FALSE]
    /\ mutex_sessions = "free"
    /\ mutex = [s \in IDs |-> "free"]
    /\ pc = [t \in Threads |->
                IF t = "main" THEN "run" ELSE IF t \in Stoppers THEN "idle" ELSE "unstarted"]
    /\ ev = [t \in Loops |-> NoEvent]
    /\ cur = [t \in Threads |-> NoId]
    /\ todo = [t \in Sweepers |-> {}]
    /\ pending = {}
    /\ serverShutdown = FALSE
    /\ cqShutdown = [t \in Loops |-> FALSE]
    /\ removedHandled = {}
    /\ cancelLog = {}
    /\ stopLog = <<>>
    /\ sweepsAfterClear = 0
    /\ replyAfterClear = FALSE
    /\ replyCount = [s \in IDs |-> 0]
    /\ sweepSnapshot = {}
    /\ codecIn = NoEvent

Goto(t, label) == pc' = [pc EXCEPT ![t] = label]

\* Leaving the scope of a lock_guard on a session mutex.
Released(t) == [s \in IDs |-> IF mutex[s] = t THEN "free" ELSE mutex[s]]

(***************************************************************************)
(* The transport and its two completion queues (specification, section 6). *)
(***************************************************************************)

\* The ok flag a completion can carry.  After the listener is shut down every
\* operation fails out (ok = false).  Before that an outstanding accept only
\* ever completes with a connection (ok = true), and only while an identifier
\* is left for the slot its CONNECTED event arms; a read or a write completes
\* or fails (the peer went away); a done notification carries either value.
OkValues(tag) ==
    IF serverShutdown THEN {FALSE}
    ELSE IF DecodeEvent(tag) = GRPC_EVENT_CONNECTED
         THEN IF session_id_allocator < MaxSessions THEN {TRUE} ELSE {}
         ELSE BOOLEAN

\* Accept completions arrive on the notification queue, read and write
\* completions on the call queue.  The done notification of a session arrives
\* on the call queue once its accept has completed ("close (already
\* connected)"), and on the notification queue when the listener is shut down
\* while the accept is still outstanding ("close (waiting for connect)").
Deliverable(q) ==
    IF q = "notif"
    THEN {tag \in pending :
            \/ DecodeEvent(tag) = GRPC_EVENT_CONNECTED /\ OkValues(tag) # {}
            \/ /\ DecodeEvent(tag) = GRPC_EVENT_FINISHED
               /\ Encode(DecodeId(tag), GRPC_EVENT_CONNECTED) \in pending
               /\ serverShutdown}
    ELSE {tag \in pending :
            \/ DecodeEvent(tag) \in {GRPC_EVENT_READ_DONE, GRPC_EVENT_WRITE_DONE}
            \/ /\ DecodeEvent(tag) = GRPC_EVENT_FINISHED
               /\ Encode(DecodeId(tag), GRPC_EVENT_CONNECTED) \notin pending}

(***************************************************************************)
(* GreetingServer::addSession, run by the call loop before its first       *)
(* Next() and by process(CONNECTED) to arm the next accept slot.           *)
(***************************************************************************)

\* A variant that hands out the counter's value without advancing it.
AddSessionInitReusesId(t) ==
    /\ pc[t] = "add_init"
    /\ session_id_allocator < MaxSessions
    /\ session_id_allocator' = session_id_allocator
    /\ \E initOk \in BOOLEAN :
          IF initOk
          THEN /\ status' = [status EXCEPT ![session_id_allocator] = "WAIT_CONNECT"]
               /\ pending' = pending \cup
                                {Encode(session_id_allocator, GRPC_EVENT_CONNECTED),
                                 Encode(session_id_allocator, GRPC_EVENT_FINISHED)}
               /\ cur' = [cur EXCEPT ![t] = session_id_allocator]
               /\ Goto(t, "add_insert")
               /\ UNCHANGED <<mutex, ev>>
          ELSE /\ mutex' = Released(t)
               /\ ev' = [ev EXCEPT ![t] = NoEvent]
               /\ Goto(t, "next")
               /\ UNCHANGED <<status, pending, cur>>
    /\ UNCHANGED <<running, registryVars, writeInFlight, todo, serverShutdown,
                   cqShutdown, removedHandled, stopHist, pubHist>>
    /\ UNCHANGED codecIn

\* session_id_allocator_++, make_shared, init(): init arms the accept and the
\* done notification of the new session; when it fails addSession returns
\* nullptr without touching the registry.
AddSessionInit(t) ==
    /\ pc[t] = "add_init"
    /\ session_id_allocator < MaxSessions
    /\ session_id_allocator' = session_id_allocator + 1
    /\ \E initOk \in BOOLEAN :
          IF initOk
          THEN /\ status' = [status EXCEPT ![session_id_allocator] = "WAIT_CONNECT"]
               /\ pending' = pending \cup
                                {Encode(session_id_allocator, GRPC_EVENT_CONNECTED),
                                 Encode(session_id_allocator, GRPC_EVENT_FINISHED)}
               /\ cur' = [cur EXCEPT ![t] = session_id_allocator]
               /\ Goto(t, "add_insert")
               /\ UNCHANGED <<mutex, ev>>
          ELSE /\ mutex' = Released(t)
               /\ ev' = [ev EXCEPT ![t] = NoEvent]
               /\ Goto(t, "next")
               /\ UNCHANGED <<status, pending, cur>>
    /\ UNCHANGED <<running, registryVars, writeInFlight, todo, serverShutdown,
                   cqShutdown, removedHandled, stopHist, pubHist>>
    /\ UNCHANGED codecIn

\* A variant that inserts without taking mutex_sessions_.
AddSessionInsertUnlocked(t) ==
    /\ pc[t] = "add_insert"
    /\ sessions' = sessions \cup {cur[t]}
    /\ mutex' = Released(t)
    /\ cur' = [cur EXCEPT ![t] = NoId]
    /\ ev' = [ev EXCEPT ![t] = NoEvent]
    /\ Goto(t, "next")
    /\ UNCHANGED <<running, session_id_allocator, sessionVars, mutex_sessions, todo,
                   transportVars, removedHandled, stopHist, pubHist>>
    /\ UNCHANGED codecIn

\* lock_guard{mutex_sessions_}; sessions_[new_session_id] = new_session; return.
\* When the caller is process(CONNECTED) the return also ends process and
\* leaves the scope of the session's lock_guard.
AddSessionInsert(t) ==
    /\ pc[t] = "add_insert"
    /\ mutex_sessions = "free"
    /\ sessions' = sessions \cup {cur[t]}
    /\ mutex' = Released(t)
    /\ cur' = [cur EXCEPT ![t] = NoId]
    /\ ev' = [ev EXCEPT ![t] = NoEvent]
    /\ Goto(t, "next")
    /\ UNCHANGED <<running, session_id_allocator, sessionVars, mutex_sessions, todo,
                   transportVars, removedHandled, stopHist, pubHist>>
    /\ UNCHANGED codecIn

(***************************************************************************)
(* The dispatch loops of GreetingServer::run (t is "call" or "notif").     *)
(***************************************************************************)

\* Next() returns true with a tag: decode it, then branch on FINISHED.
LoopNext(t) ==
    /\ pc[t] = "next"
    /\ \E tag \in Deliverable(t) : \E ok \in OkValues(tag) :
          /\ pending' = pending \ {tag}
          /\ ev' = [ev EXCEPT ![t] = [id |-> DecodeId(tag),
                                      event |-> DecodeEvent(tag),
                                      ok |-> ok]]
          /\ Goto(t, IF DecodeEvent(tag) = GRPC_EVENT_FINISHED THEN "remove" ELSE "get")
    /\ UNCHANGED <<running, session_id_allocator, registryVars, sessionVars, mutex,
                   cur, todo, serverShutdown, cqShutdown, removedHandled, stopHist,
                   pubHist>>
    /\ UNCHANGED codecIn

\* Next() returns false: the queue was shut down and has drained.
LoopExit(t) ==
    /\ pc[t] = "next"
    /\ cqShutdown[t]
    /\ Deliverable(t) = {}
    /\ Goto(t, "exit")
    /\ UNCHANGED <<running, session_id_allocator, registryVars, sessionVars, mutex,
                   ev, cur, todo, transportVars, removedHandled, stopHist, pubHist>>
    /\ UNCHANGED codecIn

\* A variant whose erase of an absent key empties the registry.
LoopRemoveEraseEnd(t) ==
    /\ pc[t] = "remove"
    /\ mutex_sessions = "free"
    /\ sessions' = IF ev[t].id \in sessions THEN sessions \ {ev[t].id} ELSE {}
    /\ removedHandled' = removedHandled \cup {ev[t].id}
    /\ ev' = [ev EXCEPT ![t] = NoEvent]
    /\ Goto(t, "next")
    /\ UNCHANGED <<running, session_id_allocator, sessionVars, mutex_sessions, mutex,
                   cur, todo, transportVars, stopHist, pubHist>>
    /\ UNCHANGED codecIn

\* A variant that leaves the loop after the removal instead of continuing.
LoopRemoveBreaks(t) ==
    /\ pc[t] = "remove"
    /\ mutex_sessions = "free"
    /\ sessions' = sessions \ {ev[t].id}
    /\ removedHandled' = removedHandled \cup {ev[t].id}
    /\ ev' = [ev EXCEPT ![t] = NoEvent]
    /\ Goto(t, "exit")
    /\ UNCHANGED <<running, session_id_allocator, sessionVars, mutex_sessions, mutex,
                   cur, todo, transportVars, stopHist, pubHist>>
    /\ UNCHANGED codecIn

\* removeSession(session_id); continue.
LoopRemove(t) ==
    /\ pc[t] = "remove"
    /\ mutex_sessions = "free"
    /\ sessions' = sessions \ {ev[t].id}
    /\ removedHandled' = removedHandled \cup {ev[t].id}
    /\ ev' = [ev EXCEPT ![t] = NoEvent]
    /\ Goto(t, "next")
    /\ UNCHANGED <<running, session_id_allocator, sessionVars, mutex_sessions, mutex,
                   cur, todo, transportVars, stopHist, pubHist>>
    /\ UNCHANGED codecIn

\* A variant without the ok test.
LoopGetIgnoresOk(t) ==
    /\ pc[t] = "get"
    /\ mutex_sessions = "free"
    /\ IF ev[t].id \notin sessions
       THEN /\ ev' = [ev EXCEPT ![t] = NoEvent]
            /\ Goto(t, "next")
       ELSE /\ ev' = ev
            /\ Goto(t, "lock")
    /\ UNCHANGED <<running, session_id_allocator, registryVars, sessionVars, mutex,
                   cur, todo, transportVars, removedHandled, stopHist, pubHist>>
    /\ UNCHANGED codecIn

\* getSession(session_id), then the nullptr test and the ok test.
LoopGet(t) ==
    /\ pc[t] = "get"
    /\ mutex_sessions = "free"
    /\ IF ev[t].id \notin sessions
       THEN /\ ev' = [ev EXCEPT ![t] = NoEvent]
            /\ Goto(t, "next")
       ELSE /\ ev' = ev
            /\ Goto(t, IF ev[t].ok THEN "lock" ELSE "remove")
    /\ UNCHANGED <<running, session_id_allocator, registryVars, sessionVars, mutex,
                   cur, todo, transportVars, removedHandled, stopHist, pubHist>>
    /\ UNCHANGED codecIn

\* A variant that calls process without waiting for the session's mutex.
LoopLockUnguarded(t) ==
    /\ pc[t] = "lock"
    /\ mutex' = [mutex EXCEPT ![ev[t].id] = t]
    /\ Goto(t, "process")
    /\ UNCHANGED <<running, session_id_allocator, registryVars, sessionVars, ev, cur,
                   todo, transportVars, removedHandled, stopHist, pubHist>>
    /\ UNCHANGED codecIn

\* lock_guard{session->mutex_}
LoopLock(t) ==
    /\ pc[t] = "lock"
    /\ mutex[ev[t].id] = "free"
    /\ mutex' = [mutex EXCEPT ![ev[t].id] = t]
    /\ Goto(t, "process")
    /\ UNCHANGED <<running, session_id_allocator, registryVars, sessionVars, ev, cur,
                   todo, transportVars, removedHandled, stopHist, pubHist>>
    /\ UNCHANGED codecIn

\* session->process(event), section 4.2: CONNECTED records the status, starts
\* the read cycle and arms the next accept slot through addSession;
\* READ_DONE re-arms the read; WRITE_DONE frees the outbound capacity.
LoopProcess(t) ==
    /\ pc[t] = "process"
    /\ LET s == ev[t].id
           e == ev[t].event
       IN  IF e = GRPC_EVENT_CONNECTED
           THEN /\ status' = [status EXCEPT ![s] = "CONNECTED"]
                /\ pending' = pending \cup {Encode(s, GRPC_EVENT_READ_DONE)}
                /\ Goto(t, "add_init")
                /\ UNCHANGED <<writeInFlight, mutex, ev>>
           ELSE /\ pending' = IF e = GRPC_EVENT_READ_DONE
                              THEN pending \cup {Encode(s, GRPC_EVENT_READ_DONE)}
                              ELSE pending
                /\ writeInFlight' = IF e = GRPC_EVENT_WRITE_DONE
                                    THEN [writeInFlight EXCEPT ![s] = FALSE]
                                    ELSE writeInFlight
                /\ mutex' = Released(t)
                /\ ev' = [ev EXCEPT ![t] = NoEvent]
                /\ Goto(t, "next")
                /\ UNCHANGED status
    /\ UNCHANGED <<running, session_id_allocator, registryVars, cur, todo,
                   serverShutdown, cqShutdown, removedHandled, stopHist, pubHist>>
    /\ UNCHANGED codecIn

(***************************************************************************)
(* thread_publish_greeting: the broadcaster.                               *)
(***************************************************************************)

\* A variant whose loop condition does not read running_.
PubCheckIgnoresFlag ==
    /\ pc["pub"] = "check"
    /\ Goto("pub", "sweep")
    /\ UNCHANGED <<running, session_id_allocator, registryVars, sessionVars, mutex,
                   ev, cur, todo, transportVars, removedHandled, stopHist, pubHist>>
    /\ UNCHANGED codecIn

\* while (running_): a true test is followed by the 100 ms sleep.
PubCheck ==
    /\ pc["pub"] = "check"
    /\ Goto("pub", IF running THEN "sweep" ELSE "exit")
    /\ UNCHANGED <<running, session_id_allocator, registryVars, sessionVars, mutex,
                   ev, cur, todo, transportVars, removedHandled, stopHist, pubHist>>
    /\ UNCHANGED codecIn

\* The sleep is over: lock_guard{mutex_sessions_}, sessions_.begin().
PubSweepLock ==
    /\ pc["pub"] = "sweep"
    /\ mutex_sessions = "free"
    /\ mutex_sessions' = "pub"
    /\ todo' = [todo EXCEPT !["pub"] = sessions]
    /\ sweepSnapshot' = sessions
    /\ replyCount' = [s \in IDs |-> 0]
    /\ sweepsAfterClear' = IF FlagCleared THEN Bump(sweepsAfterClear)
                           ELSE sweepsAfterClear
    /\ Goto("pub", "iter")
    /\ UNCHANGED <<running, session_id_allocator, sessions, sessionVars, mutex, ev,
                   cur, transportVars, removedHandled, stopHist, replyAfterClear>>
    /\ UNCHANGED codecIn

\* lock_guard{it.second->mutex_} on the next entry, in key order.
PubIterLock ==
    /\ pc["pub"] = "iter"
    /\ todo["pub"] # {}
    /\ LET s == Min(todo["pub"])
       IN  /\ mutex[s] = "free"
           /\ mutex' = [mutex EXCEPT ![s] = "pub"]
           /\ cur' = [cur EXCEPT !["pub"] = s]
    /\ Goto("pub", "reply")
    /\ UNCHANGED <<running, session_id_allocator, registryVars, sessionVars, ev, todo,
                   transportVars, removedHandled, stopHist, pubHist>>
    /\ UNCHANGED codecIn

\* it.second->reply(), section 4.2: a write is started only on a CONNECTED
\* session with no write in flight; then the inner lock_guard ends and the
\* iterator advances.
PubReply ==
    /\ pc["pub"] = "reply"
    /\ LET s == cur["pub"]
       IN  /\ IF status[s] = "CONNECTED" /\ ~writeInFlight[s]
              THEN /\ writeInFlight' = [writeInFlight EXCEPT ![s] = TRUE]
                   /\ pending' = pending \cup {Encode(s, GRPC_EVENT_WRITE_DONE)}
              ELSE UNCHANGED <<writeInFlight, pending>>
           /\ replyCount' = [replyCount EXCEPT ![s] = Bump(@)]
           /\ todo' = [todo EXCEPT !["pub"] = @ \ {s}]
    /\ replyAfterClear' = (replyAfterClear \/ FlagCleared)
    /\ mutex' = Released("pub")
    /\ cur' = [cur EXCEPT !["pub"] = NoId]
    /\ Goto("pub", "iter")
    /\ UNCHANGED <<running, session_id_allocator, registryVars, status, ev,
                   serverShutdown, cqShutdown, removedHandled, stopHist,
                   sweepsAfterClear, sweepSnapshot>>
    /\ UNCHANGED codecIn

\* The range-for is over: the outer lock_guard ends, back to the loop test.
PubSweepEnd ==
    /\ pc["pub"] = "iter"
    /\ todo["pub"] = {}
    /\ mutex_sessions' = "free"
    /\ sweepSnapshot' = {}
    /\ replyCount' = [s \in IDs |-> 0]
    /\ Goto("pub", "check")
    /\ UNCHANGED <<running, session_id_allocator, sessions, sessionVars, mutex, ev,
                   cur, todo, transportVars, removedHandled, stopHist,
                   sweepsAfterClear, replyAfterClear>>
    /\ UNCHANGED codecIn

(***************************************************************************)
(* GreetingServer::stop, called from another thread at any time; c is the  *)
(* calling thread.                                                         *)
(***************************************************************************)

StopInvoke(c) ==
    /\ pc[c] = "idle"
    /\ Goto(c, "stop_check")
    /\ UNCHANGED <<running, session_id_allocator, registryVars, sessionVars, mutex,
                   ev, cur, todo, transportVars, removedHandled, stopHist, pubHist>>
    /\ UNCHANGED codecIn

\* if (!running_) { return; }
StopCheck(c) ==
    /\ pc[c] = "stop_check"
    /\ Goto(c, IF running THEN "stop_clear" ELSE "idle")
    /\ UNCHANGED <<running, session_id_allocator, registryVars, sessionVars, mutex,
                   ev, cur, todo, transportVars, removedHandled, stopHist, pubHist>>
    /\ UNCHANGED codecIn

\* running_ = false;
StopClear(c) ==
    /\ pc[c] = "stop_clear"
    /\ running' = FALSE
    /\ stopLog' = Append(stopLog, "running_cleared")
    /\ Goto(c, "sweep")
    /\ UNCHANGED <<session_id_allocator, registryVars, sessionVars, mutex, ev, cur,
                   todo, transportVars, removedHandled, cancelLog,
                   pubHist>>
    /\ UNCHANGED codecIn

\* lock_guard{mutex_sessions_}, sessions_.begin().
StopSweepLock(c) ==
    /\ pc[c] = "sweep"
    /\ mutex_sessions = "free"
    /\ mutex_sessions' = c
    /\ todo' = [todo EXCEPT ![c] = sessions]
    /\ stopLog' = Append(stopLog, "sweep_begin")
    /\ Goto(c, "iter")
    /\ UNCHANGED <<running, session_id_allocator, sessions, sessionVars, mutex, ev,
                   cur, transportVars, removedHandled, cancelLog,
                   pubHist>>
    /\ UNCHANGED codecIn

\* lock_guard{it.second->mutex_} on the next entry, in key order.
StopIterLock(c) ==
    /\ pc[c] = "iter"
    /\ todo[c] # {}
    /\ LET s == Min(todo[c])
       IN  /\ mutex[s] = "free"
           /\ mutex' = [mutex EXCEPT ![s] = c]
           /\ cur' = [cur EXCEPT ![c] = s]
    /\ Goto(c, "cancel")
    /\ UNCHANGED <<running, session_id_allocator, registryVars, sessionVars, ev, todo,
                   transportVars, removedHandled, stopHist, pubHist>>
    /\ UNCHANGED codecIn

\* A variant that erases the session it cancels.
StopCancelErases(c) ==
    /\ pc[c] = "cancel"
    /\ LET s == cur[c]
       IN  /\ cancelLog' = IF status[s] # "WAIT_CONNECT"
                           THEN cancelLog \cup {[id |-> s, status |-> status[s]]}
                           ELSE cancelLog
           /\ sessions' = IF status[s] # "WAIT_CONNECT"
                          THEN sessions \ {s}
                          ELSE sessions
           /\ todo' = [todo EXCEPT ![c] = @ \ {s}]
    /\ mutex' = Released(c)
    /\ cur' = [cur EXCEPT ![c] = NoId]
    /\ Goto(c, "iter")
    /\ UNCHANGED <<running, session_id_allocator, mutex_sessions, sessionVars, ev,
                   transportVars, removedHandled, stopLog, pubHist>>
    /\ UNCHANGED codecIn

\* if (status_ != WAIT_CONNECT) { server_context_.TryCancel(); }
StopCancel(c) ==
    /\ pc[c] = "cancel"
    /\ LET s == cur[c]
       IN  /\ cancelLog' = IF status[s] # "WAIT_CONNECT"
                           THEN cancelLog \cup {[id |-> s, status |-> status[s]]}
                           ELSE cancelLog
           /\ todo' = [todo EXCEPT ![c] = @ \ {s}]
    /\ mutex' = Released(c)
    /\ cur' = [cur EXCEPT ![c] = NoId]
    /\ Goto(c, "iter")
    /\ UNCHANGED <<running, session_id_allocator, registryVars, sessionVars, ev,
                   transportVars, removedHandled, stopLog, pubHist>>
    /\ UNCHANGED codecIn

\* A variant that shuts the completion queues down without the listener.
StopSweepEndSkipsServer(c) ==
    /\ pc[c] = "iter"
    /\ todo[c] = {}
    /\ mutex_sessions' = "free"
    /\ stopLog' = Append(stopLog, "sweep_end")
    /\ Goto(c, "cq_call")
    /\ UNCHANGED <<running, session_id_allocator, sessions, sessionVars, mutex, ev,
                   cur, todo, transportVars, removedHandled, cancelLog,
                   pubHist>>
    /\ UNCHANGED codecIn

\* The range-for is over and the outer lock_guard ends.
StopSweepEnd(c) ==
    /\ pc[c] = "iter"
    /\ todo[c] = {}
    /\ mutex_sessions' = "free"
    /\ stopLog' = Append(stopLog, "sweep_end")
    /\ Goto(c, "srv")
    /\ UNCHANGED <<running, session_id_allocator, sessions, sessionVars, mutex, ev,
                   cur, todo, transportVars, removedHandled, cancelLog,
                   pubHist>>
    /\ UNCHANGED codecIn

\* server_->Shutdown();
StopServerShutdown(c) ==
    /\ pc[c] = "srv"
    /\ serverShutdown' = TRUE
    /\ stopLog' = Append(stopLog, "server_shutdown")
    /\ Goto(c, "cq_call")
    /\ UNCHANGED <<running, session_id_allocator, registryVars, sessionVars, mutex,
                   ev, cur, todo, pending, cqShutdown, removedHandled, cancelLog,
                   pubHist>>
    /\ UNCHANGED codecIn

\* completion_queue_call_->Shutdown();
StopCqCallShutdown(c) ==
    /\ pc[c] = "cq_call"
    /\ cqShutdown' = [cqShutdown EXCEPT !["call"] = TRUE]
    /\ stopLog' = Append(stopLog, "cq_call_shutdown")
    /\ Goto(c, "cq_notif")
    /\ UNCHANGED <<running, session_id_allocator, registryVars, sessionVars, mutex,
                   ev, cur, todo, pending, serverShutdown, removedHandled, cancelLog,
                   pubHist>>
    /\ UNCHANGED codecIn

\* completion_queue_notification_->Shutdown(); return.
StopCqNotifShutdown(c) ==
    /\ pc[c] = "cq_notif"
    /\ cqShutdown' = [cqShutdown EXCEPT !["notif"] = TRUE]
    /\ stopLog' = Append(stopLog, "cq_notif_shutdown")
    /\ Goto(c, "idle")
    /\ UNCHANGED <<running, session_id_allocator, registryVars, sessionVars, mutex,
                   ev, cur, todo, pending, serverShutdown, removedHandled, cancelLog,
                   pubHist>>
    /\ UNCHANGED codecIn

(***************************************************************************)
(* GreetingServer::run on the calling thread.                              *)
(***************************************************************************)

\* running_ = true;
RunStart ==
    /\ pc["main"] = "run"
    /\ running' = TRUE
    /\ Goto("main", "spawn")
    /\ UNCHANGED <<session_id_allocator, registryVars, sessionVars, mutex, ev, cur,
                   todo, transportVars, removedHandled, stopHist, pubHist>>
    /\ UNCHANGED codecIn

\* The three std::thread objects are constructed: the call loop starts with
\* addSession(), the notification loop with Next(), the broadcaster with its
\* loop test.
RunSpawn ==
    /\ pc["main"] = "spawn"
    /\ pc' = [pc EXCEPT !["main"] = "join_call", !["call"] = "add_init",
                        !["notif"] = "next", !["pub"] = "check"]
    /\ UNCHANGED <<running, session_id_allocator, registryVars, sessionVars, mutex,
                   ev, cur, todo, transportVars, removedHandled, stopHist, pubHist>>
    /\ UNCHANGED codecIn

\* thread_completion_queue_call.join();
RunJoinCall ==
    /\ pc["main"] = "join_call"
    /\ pc["call"] = "exit"
    /\ Goto("main", "join_notif")
    /\ UNCHANGED <<running, session_id_allocator, registryVars, sessionVars, mutex,
                   ev, cur, todo, transportVars, removedHandled, stopHist, pubHist>>
    /\ UNCHANGED codecIn

\* thread_completion_queue_notification.join();
RunJoinNotif ==
    /\ pc["main"] = "join_notif"
    /\ pc["notif"] = "exit"
    /\ Goto("main", "join_pub")
    /\ UNCHANGED <<running, session_id_allocator, registryVars, sessionVars, mutex,
                   ev, cur, todo, transportVars, removedHandled, stopHist, pubHist>>
    /\ UNCHANGED codecIn

\* A variant that returns without joining the broadcaster.
RunJoinPubDetached ==
    /\ pc["main"] = "join_pub"
    /\ Goto("main", "returned")
    /\ UNCHANGED <<running, session_id_allocator, registryVars, sessionVars, mutex,
                   ev, cur, todo, transportVars, removedHandled, stopHist, pubHist>>
    /\ UNCHANGED codecIn

\* thread_publish_greeting.join(); run() returns.
RunJoinPub ==
    /\ pc["main"] = "join_pub"
    /\ pc["pub"] = "exit"
    /\ Goto("main", "returned")
    /\ UNCHANGED <<running, session_id_allocator, registryVars, sessionVars, mutex,
                   ev, cur, todo, transportVars, removedHandled, stopHist, pubHist>>
    /\ UNCHANGED codecIn

LoopStep(t) ==
    \/ AddSessionInit(t)
    \/ AddSessionInsert(t)
    \/ LoopNext(t)
    \/ LoopExit(t)
    \/ LoopRemove(t)
    \/ LoopGet(t)
    \/ LoopLock(t)
    \/ LoopProcess(t)

PubStep == PubCheck \/ PubSweepLock \/ PubIterLock \/ PubReply \/ PubSweepEnd

\* Every step of stop() once it has been called.
StopStep(c) ==
    \/ StopCheck(c)
    \/ StopClear(c)
    \/ StopSweepLock(c)
    \/ StopIterLock(c)
    \/ StopCancel(c)
    \/ StopSweepEnd(c)
    \/ StopServerShutdown(c)
    \/ StopCqCallShutdown(c)
    \/ StopCqNotifShutdown(c)

RunStep == RunStart \/ RunSpawn \/ RunJoinCall \/ RunJoinNotif \/ RunJoinPub

Next ==
    \/ \E t \in Loops : LoopStep(t)
    \/ PubStep
    \/ StopInvoke("stop")
    \/ StopStep("stop")
    \/ RunStep

Spec == Init /\ [][Next]_vars

\* Every thread that can take a step eventually takes one; whether and when
\* stop() is called is left to the caller.
Fairness ==
    /\ \A t \in Loops : WF_vars(LoopStep(t))
    /\ WF_vars(PubStep)
    /\ WF_vars(StopStep("stop"))
    /\ WF_vars(RunStep)

FairSpec == Spec /\ Fairness

(***************************************************************************)
(* The server with two threads calling stop().  The broadcaster and the    *)
(* joins of run() take no step here: every behaviour of this specification *)
(* is a behaviour of the whole server in which they are not scheduled.     *)
(***************************************************************************)

StopRaceNext ==
    \/ RunStart
    \/ RunSpawn
    \/ \E t \in Loops : LoopStep(t)
    \/ \E c \in Stoppers : StopInvoke(c) \/ StopStep(c)

StopRaceSpec == Init /\ [][StopRaceNext]_vars

(***************************************************************************)
(* The identifier and tag pipeline on its own: addSession called over and  *)
(* over until the counter passes the identifier range of the tag, a        *)
(* session arming an operation under its tag, a dispatch loop decoding the *)
(* tag that Next() hands back.                                             *)
(***************************************************************************)

\* The counter values the pipeline runs through: the whole identifier range
\* of the tag and the first value past it.
CodecMaxIds == MaxTagId + 2

\* The state the pipeline leaves untouched.
codecFrame == <<running, status, writeInFlight, mutex_sessions, mutex, pc, cur,
                todo, serverShutdown, cqShutdown, removedHandled, stopHist,
                pubHist>>

\* addSession: new_session_id = session_id_allocator_++ and
\* sessions_[new_session_id] = new_session; the code compares the counter
\* with nothing before using it.
CodecAddSession ==
    /\ pending = {}
    /\ session_id_allocator < CodecMaxIds
    /\ session_id_allocator' = session_id_allocator + 1
    /\ sessions' = sessions \cup {session_id_allocator}
    /\ UNCHANGED <<codecFrame, pending, ev, codecIn>>

\* A session arms an operation of some kind under the tag made of its
\* identifier and the kind (section 4.1).
CodecArm ==
    /\ pending = {}
    /\ \E id \in sessions : \E event \in Events :
          /\ pending' = {Encode(id, event)}
          /\ codecIn' = [id |-> id, event |-> event, ok |-> TRUE]
    /\ ev' = [t \in Loops |-> NoEvent]
    /\ UNCHANGED <<codecFrame, session_id_allocator, sessions>>

\* Next() hands the tag back and the loop splits it (lines 34-36, 64-66).
CodecDecode(t) ==
    /\ \E tag \in pending :
          /\ pending' = pending \ {tag}
          /\ ev' = [ev EXCEPT ![t] = [id |-> DecodeId(tag),
                                      event |-> DecodeEvent(tag),
                                      ok |-> TRUE]]
    /\ UNCHANGED <<codecFrame, session_id_allocator, sessions, codecIn>>

CodecNext == CodecAddSession \/ CodecArm \/ (\E t \in Loops : CodecDecode(t))

CodecSpec == Init /\ [][CodecNext]_vars

TypeOK ==
    /\ running \in BOOLEAN
    /\ session_id_allocator \in 0 .. MaxSessions
    /\ sessions \subseteq IDs
    /\ status \in [IDs -> {"NONE", "WAIT_CONNECT", "CONNECTED"}]
    /\ writeInFlight \in [IDs -> BOOLEAN]
    /\ mutex_sessions \in Sweepers \cup {"free"}
    /\ mutex \in [IDs -> Threads \cup {"free"}]
    /\ \A t \in Loops : ev[t] = NoEvent \/ ev[t].id \in IDs
    /\ \A tag \in pending : DecodeId(tag) \in IDs

(***************************************************************************)
(* Properties.                                                             *)
(***************************************************************************)

\* The session a thread is executing on: process (with the addSession it
\* calls) in a dispatch loop, reply() in the broadcaster, the status check
\* and TryCancel in stop().
InSession(t, s) ==
    \/ /\ t \in Loops
       /\ pc[t] \in {"process", "add_init", "add_insert"}
       /\ ev[t].id = s
    \/ /\ t = "pub"
       /\ pc[t] = "reply"
       /\ cur[t] = s
    \/ /\ t \in Stoppers
       /\ pc[t] = "cancel"
       /\ cur[t] = s

HoldsSessionLock(t) == \E s \in IDs : mutex[s] = t

\* The thread stands at an acquisition of mutex_sessions_.
AttemptsRegistryLock(t) ==
    \/ t \in Loops /\ pc[t] \in {"remove", "get", "add_insert"}
    \/ t \in Sweepers /\ pc[t] = "sweep"

\* The thread that holds the lock t is blocked on ("free" when t is not
\* standing at the acquisition of a held lock).
BlockedOn(t) ==
    IF AttemptsRegistryLock(t) THEN mutex_sessions
    ELSE IF t \in Loops /\ pc[t] = "lock" THEN mutex[ev[t].id]
    ELSE IF t \in Sweepers /\ pc[t] = "iter" /\ todo[t] # {} THEN mutex[Min(todo[t])]
    ELSE "free"

AllLoopsExited == pc["call"] = "exit" /\ pc["notif"] = "exit" /\ pc["pub"] = "exit"

StopCompleted == Len(stopLog) = 6

ShutdownOrder ==
    <<"running_cleared", "sweep_begin", "sweep_end", "server_shutdown",
      "cq_call_shutdown", "cq_notif_shutdown">>

\* C1: once a dispatch loop has handled a FINISHED or not-ok event for a
\* session, the session is never again in the registry and no dispatch loop
\* invokes process on it.
C1_NoProcessAfterRemoval ==
    /\ sessions \cap removedHandled = {}
    /\ \A t \in Loops : pc[t] = "process" => ev[t].id \notin removedHandled

\* C2: no thread that holds a session's lock attempts to acquire the registry
\* lock.
C2_RegistryLockFirst ==
    \A t \in Threads : HoldsSessionLock(t) => ~AttemptsRegistryLock(t)

\* C3: there is never a set of threads each of which is blocked on a lock
\* held by another thread of the set.
C3_NoLockDeadlock ==
    ~ \E D \in (SUBSET Threads) \ {{}} : \A t \in D : BlockedOn(t) \in D

\* C4: at most one thread at a time executes process, reply or the cancel
\* check on any one session.
C4_SessionMutualExclusion ==
    \A s \in IDs : Cardinality({t \in Threads : InSession(t, s)}) <= 1

\* C4 witness: a dispatch loop is inside process on a session while the
\* broadcaster sweep has reached that very session and waits for its lock.
C4_Contended ==
    \E t \in Loops :
        /\ pc[t] = "process"
        /\ pc["pub"] = "iter"
        /\ todo["pub"] # {}
        /\ Min(todo["pub"]) = ev[t].id

\* C5: during shutdown no WAIT_CONNECT session receives a cancel call, and
\* once the cancel sweep is over every CONNECTED session of the registry has
\* received one.
C5_CancelExactlyConnected ==
    /\ \A c \in cancelLog : c.status # "WAIT_CONNECT"
    /\ Len(stopLog) >= 3 =>
          \A s \in sessions :
              status[s] = "CONNECTED" => \E c \in cancelLog : c.id = s

\* C6: the steps of stop() happen in the order running flag, cancel sweep,
\* listener, call queue, notification queue, each one over before the next
\* begins; no queue is shut down before the listener.
C6_ShutdownOrder ==
    /\ Len(stopLog) <= Len(ShutdownOrder)
    /\ stopLog = SubSeq(ShutdownOrder, 1, Len(stopLog))
    /\ mutex_sessions = "stop" <=> Len(stopLog) = 2
    /\ cancelLog # {} => Len(stopLog) >= 2
    /\ serverShutdown <=> Len(stopLog) >= 4
    /\ cqShutdown["call"] <=> Len(stopLog) >= 5
    /\ cqShutdown["notif"] <=> Len(stopLog) >= 6
    /\ \A q \in Loops : cqShutdown[q] => serverShutdown

\* C6 witness: stop() ran to its end and its sweep cancelled a session.
C6_FullShutdown == StopCompleted /\ cancelLog # {}

\* C7 as stated: when stop() has completed, the two dispatch loops and the
\* broadcaster have exited.
C7_StopCompletedImpliesExited == StopCompleted => AllLoopsExited

\* C7 amended: the joins are in run(); when run() has returned, the two
\* dispatch loops and the broadcaster have exited.
C7_RunReturnedImpliesExited == pc["main"] = "returned" => AllLoopsExited

\* C7 witness: run() has returned after a shutdown.
C7_RunReturned == pc["main"] = "returned" /\ StopCompleted

\* C8: if stop() is called at any point, then under fair scheduling both
\* dispatch loops and the broadcaster eventually exit and run() returns.
C8_StopLeadsToRunReturn == (pc["stop"] = "stop_check") ~> (pc["main"] = "returned")

\* C9 as stated: after the running flag is cleared the broadcaster begins no
\* sweep and no reply().
C9_NoSweepAfterClear == sweepsAfterClear = 0 /\ ~replyAfterClear

\* C9 amended: after the running flag is cleared the broadcaster begins at
\* most one more sweep, the one whose loop test preceded the clearing.
C9_AtMostOneSweepAfterClear ==
    /\ sweepsAfterClear <= 1
    /\ sweepsAfterClear = 1 /\ pc["pub"] = "sweep" => running

\* C9 witness: the broadcaster passed its loop test, the flag was cleared
\* during its sleep, and it began its sweep all the same.
C9_StaleSweep == sweepsAfterClear = 1 /\ pc["pub"] \in {"iter", "reply"}

\* C10: throughout a broadcaster sweep the registry is the one the sweep
\* began with and is locked by the broadcaster, a session lock is held only
\* inside it, and reply() has been called once on every entry already visited
\* and on no other; at the end of the sweep that is every entry.
C10_SweepRepliesOncePerEntry ==
    pc["pub"] \in {"iter", "reply"} =>
        /\ mutex_sessions = "pub"
        /\ sessions = sweepSnapshot
        /\ todo["pub"] \subseteq sessions
        /\ \A s \in IDs :
              replyCount[s] = IF s \in sessions \ todo["pub"] THEN 1 ELSE 0
        /\ pc["pub"] = "reply" => mutex[cur["pub"]] = "pub"

\* C10 witness: a sweep over two sessions has called reply() on both.
C10_SweepOverTwo ==
    /\ pc["pub"] = "iter"
    /\ todo["pub"] = {}
    /\ Cardinality(sessions) >= 2
    /\ \A s \in sessions : replyCount[s] = 1

\* C11: every addSession call takes the counter's value as the new identifier
\* and advances the counter by one, whether init() then succeeds or fails, and
\* no step ever lowers the counter, so identifiers are handed out in strictly
\* increasing order and never twice; an identifier being inserted is below the
\* counter, is held by no other addSession call and is not yet a key of the
\* registry, so the insertion overwrites nothing.
C11_IdsStrictlyIncreasing ==
    [][/\ session_id_allocator' >= session_id_allocator
       /\ \A t \in Loops :
             /\ (pc[t] = "add_init" /\ pc'[t] # "add_init") =>
                    /\ session_id_allocator' = session_id_allocator + 1
                    /\ pc'[t] = "add_insert" => cur'[t] = session_id_allocator
             /\ pc'[t] = "add_insert" =>
                    /\ cur'[t] < session_id_allocator'
                    /\ cur'[t] \notin sessions'
                    /\ \A u \in Loops \ {t} :
                          pc'[u] = "add_insert" => cur'[u] # cur'[t]
             /\ (pc[t] = "add_insert" /\ pc'[t] # "add_insert") =>
                    /\ cur[t] \notin sessions
                    /\ sessions' = sessions \cup {cur[t]}]_vars

\* C11 witness: a second identifier is about to be inserted after the first
\* session was already removed from the registry.
C11_SecondIdAfterRemoval ==
    /\ pc["notif"] = "add_insert"
    /\ cur["notif"] = 1
    /\ 0 \in removedHandled

\* C12: no session is ever created under an identifier that does not fit the
\* bits the tag reserves for it: the tag of every registered session, for
\* every kind, decodes to that session and is the tag of no other session.
C12_NoIdBeyondTagRange ==
    \A s \in sessions : \A e \in Events :
        /\ DecodeId(Encode(s, e)) = s
        /\ \A s2 \in sessions \ {s} : Encode(s2, e) # Encode(s, e)

\* C13: for an identifier that fits the reserved bits and any of the four
\* kinds, what either dispatch loop decodes from the tag is the identifier
\* and the kind the tag was made of.
C13_DecodeInvertsEncode ==
    \A t \in Loops :
        (ev[t] # NoEvent /\ codecIn.id <= MaxTagId) =>
            /\ ev[t].id = codecIn.id
            /\ ev[t].event = codecIn.event

\* C13 witness: the notification loop has decoded the tag of the largest
\* identifier that fits, armed for the kind with the largest value.
C13_LargestIdDecoded ==
    /\ codecIn = [id |-> MaxTagId, event |-> GRPC_EVENT_FINISHED, ok |-> TRUE]
    /\ ev["notif"] = codecIn
    /\ pending = {}

\* The loop t ends its removeSession call in this step.
RemoveStep(t) == pc[t] = "remove" /\ pc'[t] # "remove"

\* C14: a removeSession call for an identifier that is not a key of the
\* registry (never inserted, or removed before) leaves the registry as it
\* was and returns normally to the loop; after any removal the identifier is
\* absent, so a second removal of it changes nothing.
C14_RemoveAbsentIsNoOp ==
    [][\A t \in Loops :
          RemoveStep(t) =>
             /\ ev[t].id \notin sessions'
             /\ ev[t].id \notin sessions =>
                    /\ sessions' = sessions
                    /\ pc'[t] = "next"]_vars

\* C14 witness: a loop is about to remove an identifier that an earlier
\* removeSession call already took out of a registry that still has entries.
C14_SecondRemoval ==
    \E t \in Loops :
        /\ pc[t] = "remove"
        /\ ev[t].id \in removedHandled
        /\ ev[t].id \notin sessions
        /\ sessions # {}

\* C15: the removal that handles a FINISHED or not-ok event of a session
\* takes exactly that session's entry out of the registry; every other entry
\* and every session's status and write capacity stay as they were, no other
\* thread moves, and the loop goes back to pull the next event.  The lookup
\* that precedes a not-ok removal changes nothing either.
C15_RemovalTouchesOnlyItsEntry ==
    [][\A t \in Loops :
          /\ RemoveStep(t) =>
                /\ sessions' = sessions \ {ev[t].id}
                /\ status' = status
                /\ writeInFlight' = writeInFlight
                /\ pc'[t] = "next"
                /\ \A u \in Threads \ {t} : pc'[u] = pc[u]
          /\ (pc[t] = "get" /\ pc'[t] # "get" /\ ~ev[t].ok) =>
                /\ sessions' = sessions
                /\ status' = status
                /\ pc'[t] \in {"remove", "next"}]_vars

\* C15 witness: a loop is about to remove a registered session while another
\* session is registered too.
C15_RemoveAmongOthers ==
    \E t \in Loops :
        /\ pc[t] = "remove"
        /\ ev[t].id \in sessions
        /\ sessions \ {ev[t].id} # {}

\* C16: no step of stop() changes the set of registry entries, and an entry
\* only ever leaves the registry in the removeSession call of a dispatch loop
\* handling an event of that session.
C16_CancelRemovesNothing ==
    [][/\ \A c \in Stoppers : pc'[c] # pc[c] => sessions' = sessions
       /\ \A s \in sessions \ sessions' :
             \E t \in Loops : RemoveStep(t) /\ ev[t].id = s]_vars

\* C16 witness: a session the sweep cancelled is still registered when stop()
\* has returned, and a loop is about to remove it.
C16_CancelledStillRegistered ==
    /\ StopCompleted
    /\ \E t \in Loops : \E c \in cancelLog :
          /\ pc[t] = "remove"
          /\ ev[t].id = c.id
          /\ c.id \in sessions

\* C17: a dispatch loop finds the session of an event absent only when a
\* removeSession call for that session has gone before; in particular no
\* event is dropped because its session was armed but not yet inserted.
C17_AbsentOnlyAfterRemoval ==
    [][\A t \in Loops :
          (pc[t] = "get" /\ pc'[t] = "next") =>
              ev[t].id \in removedHandled]_vars

\* C18: in either loop process is reached only with ok = true, a kind other
\* than FINISHED and a session the lookup found in the registry; handling an
\* event with ok = false or kind FINISHED never reaches process and ends
\* with the event's session out of the registry.
C18_ProcessOnlyForLiveOkEvents ==
    [][\A t \in Loops :
          /\ pc'[t] \in {"lock", "process"} =>
                /\ ev'[t].ok
                /\ ev'[t].event # GRPC_EVENT_FINISHED
          /\ (pc[t] = "get" /\ pc'[t] = "lock") => ev[t].id \in sessions
          /\ pc'[t] = "lock" => pc[t] \in {"get", "lock"}
          /\ (ev[t] # NoEvent /\ (~ev[t].ok \/ ev[t].event = GRPC_EVENT_FINISHED)) =>
                /\ pc'[t] \in {"get", "remove", "next"}
                /\ pc'[t] = "next" => ev[t].id \notin sessions']_vars

\* C18 witness: a loop is about to remove a registered session because a
\* read or write of it completed with ok = false.
C18_NotOkRemoval ==
    \E t \in Loops :
        /\ pc[t] = "remove"
        /\ ~ev[t].ok
        /\ ev[t].event \in {GRPC_EVENT_READ_DONE, GRPC_EVENT_WRITE_DONE}
        /\ ev[t].id \in sessions

\* The sessions of the registry that wait for a connection.
WaitingSlots == {s \in sessions : status[s] = "WAIT_CONNECT"}

\* C19: once the first session is registered and as long as stop() has not
\* been called, the registry holds exactly one session in WAIT_CONNECT
\* whenever no loop is handling a CONNECTED event.
C19_OneWaitingSlot ==
    (/\ status[0] # "NONE"
     /\ pc["call"] \notin {"unstarted", "add_init", "add_insert"}
     /\ \A c \in Stoppers : pc[c] = "idle"
     /\ stopLog = <<>>
     /\ \A t \in Loops : ev[t].event # GRPC_EVENT_CONNECTED)
        => Cardinality(WaitingSlots) = 1

\* How often a step occurs in the log of stop().
Occurrences(step) == Cardinality({i \in 1 .. Len(stopLog) : stopLog[i] = step})

\* C20: a stop() call that finds the running flag clear returns without
\* doing anything, and whatever the calls of stop() and their interleaving,
\* the cancel sweep, the listener shutdown and the shutdown of each queue
\* happen at most once.
C20_StopIdempotent ==
    [][/\ \A c \in Stoppers :
             (pc[c] = "stop_check" /\ pc'[c] # "stop_check" /\ ~running) =>
                 /\ pc'[c] = "idle"
                 /\ stopLog' = stopLog
                 /\ UNCHANGED <<running, sessions, cancelLog, transportVars>>
       /\ \A step \in {"sweep_begin", "server_shutdown", "cq_call_shutdown",
                        "cq_notif_shutdown"} :
             Occurrences(step)' <= 1]_vars

====
